---- MODULE Spec2Model ----
(***************************************************************************)
(* PTCP (src/src/ptcp.rs): the payload / body / packet binary codec and    *)
(* the session counter state machine.                                      *)
(*                                                                         *)
(* A u32 is held as two 16-bit halves [hi, lo] (value = hi * 65536 + lo),  *)
(* because the values of the program reach 2^32 - 1.  A "wide" number is   *)
(* the same record with hi not reduced: it stands for the mathematical     *)
(* integer, so that a sum that leaves the u32 range stays visible.         *)
(***************************************************************************)
EXTENDS Integers, Sequences, FiniteSets, TLC

VARIABLES
    overflow_checks, \* build profile: TRUE = arithmetic overflow panics, FALSE = it wraps
    session,         \* the PTCPSession: [sent, recv, count, id, rmid]
    op,              \* the last operation run
    pre,             \* the session as it was immediately before the last operation
    arg_body,        \* the body handed to the last send
    arg_packet,      \* the packet handed to the last recv / packet round trip
    arg_payload,     \* the payload handed to the last payload round trip
    arg_len,         \* the data.len() handed to the last payload header computation
    wire,            \* the bytes last serialized or handed to parse
    ret,             \* outcome of the last operation: [ok, msg, packet, payload]
    hist,            \* history of the session (observation only)
    steps,           \* number of session operations run
    peer,            \* the PTCPSession of the endpoint at the other end of the socket
    peer_checks,     \* build profile of the peer
    peer_pre,        \* the peer's session as it was immediately before the last operation
    a_pc,            \* where the sending endpoint is: "idle", "sent" (holds a packet), "dead"
    b_pc,            \* where the receiving endpoint is: "idle", "read" (holds a packet), "dead"
    net,             \* datagrams the socket has accepted and not yet handed over, in order
    sock,            \* what the socket did in the last transport call
    delivered,       \* the datagram last received, and the packet ptcp_read made of it
    running,         \* the task holding the executor's thread: "none", "requester", "reader"
    task,            \* where each task on the socket is: "idle", "ready", "pending", "done",
                     \* "panicked"
    inbox,           \* datagrams that have arrived at the socket and were not yet received
    writable         \* whether the socket accepts a datagram now

link_vars == <<peer, peer_checks, peer_pre, a_pc, b_pc, net, sock, delivered>>

task_vars == <<running, task, inbox, writable>>

vars == <<overflow_checks, session, op, pre, arg_body, arg_packet, arg_payload,
          arg_len, wire, ret, hist, steps, link_vars, task_vars>>

----------------------------------------------------------------------------
(* Bounds of the model *)

\* number of send / recv calls explored after the initial state
MaxSteps == 2
\* longest enumerated payload data (every byte sequence over DataBytes)
MaxDataLen == 2

----------------------------------------------------------------------------
(* u32 arithmetic *)

W8 == 256
W16 == 65536

\* a number below 2^31 as a u32
U32(n) == [hi |-> n \div W16, lo |-> n % W16]

IsU32(x) == x.hi < W16

\* reduction modulo 2^32
Wrap(x) == [hi |-> x.hi % W16, lo |-> x.lo]

\* the mathematical sum (not reduced)
WideAdd(a, b) ==
    LET lo == a.lo + b.lo
    IN  [hi |-> a.hi + b.hi + (lo \div W16), lo |-> lo % W16]

Lt(a, b) == a.hi < b.hi \/ (a.hi = b.hi /\ a.lo < b.lo)

Le(a, b) == a = b \/ Lt(a, b)

\* a - b modulo 2^32
WrapSub(a, b) ==
    LET lo == a.lo - b.lo
        borrow == IF lo < 0 THEN 1 ELSE 0
        hi == a.hi - b.hi - borrow
    IN  [hi |-> (hi + W16) % W16, lo |-> (lo + W16) % W16]

\* `n as u32` of a usize
CastU32(n) == Wrap([hi |-> n \div W16, lo |-> n % W16])

RECURSIVE BitOr(_, _)
\* bitwise or of two naturals
BitOr(a, b) ==
    IF a = 0 THEN b
    ELSE IF b = 0 THEN a
    ELSE (IF (a % 2 = 1) \/ (b % 2 = 1) THEN 1 ELSE 0) + 2 * BitOr(a \div 2, b \div 2)

\* a | b on u32
Or32(a, b) == [hi |-> BitOr(a.hi, b.hi), lo |-> BitOr(a.lo, b.lo)]

\* a & 0xFF: the length mask one byte short
AndLow8(a) == [hi |-> 0, lo |-> a.lo % W8]

\* a & 0xFFFF on u32
AndLow16(a) == [hi |-> 0, lo |-> a.lo]

\* u32::to_be_bytes
to_be_bytes(u) == <<u.hi \div W8, u.hi % W8, u.lo \div W8, u.lo % W8>>

\* u32::from_be_bytes([data[i], data[i+1], data[i+2], data[i+3]]), i counted from 0
from_be_bytes(data, i) ==
    [hi |-> data[i + 1] * W8 + data[i + 2], lo |-> data[i + 3] * W8 + data[i + 4]]

----------------------------------------------------------------------------
(* Values *)

Command(c) == [kind |-> "Command", realm |-> U32(0), data |-> c]
Payload(realm, data) == [kind |-> "Payload", realm |-> realm, data |-> data]
Empty == [kind |-> "Empty", realm |-> U32(0), data |-> <<>>]

PTCPPayload(realm, data) == [realm |-> realm, data |-> data]

PTCPPacket(sent, recv, pid, lmid, rmid, body) ==
    [sent |-> sent, recv |-> recv, pid |-> pid, lmid |-> lmid, rmid |-> rmid,
     body |-> body]

\* placeholders carried by an outcome that holds no value
NoPayload == PTCPPayload(U32(0), <<>>)
NoPacket == PTCPPacket(U32(0), U32(0), U32(0), U32(0), U32(0), Empty)

Ok(packet, payload) == [ok |-> TRUE, msg |-> "", packet |-> packet, payload |-> payload]
\* a failed assertion / arithmetic check: the call does not return
Panic(msg) == [ok |-> FALSE, msg |-> msg, packet |-> NoPacket, payload |-> NoPayload]

\* b"PTCP"
Magic == <<80, 84, 67, 80>>
\* b"\x00\x03\x01\x00"
AckCommand == <<0, 3, 1, 0>>
\* the payload tag 0x10 and the header 0x10000000 = 0x1000 << 16
PayloadTag == 16
PayloadHeaderBase == [hi |-> 4096, lo |-> 0]
\* 0x0002FFFF and 0x0000FFFF
AckPid == [hi |-> 2, lo |-> 65535]
PidBase == [hi |-> 0, lo |-> 65535]
\* the fixed payload header overhead
PayloadOverhead == 12
PacketHeaderLen == 24
MinBodyLen == 4

\* &data[from..]
SliceFrom(data, from) == SubSeq(data, from + 1, Len(data))

----------------------------------------------------------------------------
(* Payload codec *)

\* PTCPPayload::parse without the assertion on the padding
PTCPPayload_parse_NoPadding(data) ==
    IF Len(data) < PayloadOverhead THEN Panic("Invalid payload")
    ELSE IF data[1] # PayloadTag THEN Panic("Invalid header")
    ELSE
        LET length == AndLow16(from_be_bytes(data, 0))
            rest == SliceFrom(data, PayloadOverhead)
        IN  IF length # CastU32(Len(rest)) THEN Panic("Invalid length")
            ELSE Ok(NoPacket, PTCPPayload(from_be_bytes(data, 4), rest))

PTCPPayload_parse(data) ==
    IF Len(data) < PayloadOverhead THEN Panic("Invalid payload")
    ELSE IF data[1] # PayloadTag THEN Panic("Invalid header")
    ELSE
        LET header == from_be_bytes(data, 0)
            length == AndLow16(header)
            realm == from_be_bytes(data, 4)
            padding == from_be_bytes(data, 8)
            rest == SliceFrom(data, PayloadOverhead)
        IN  IF padding # U32(0) THEN Panic("Invalid padding")
            ELSE IF length # CastU32(Len(rest)) THEN Panic("Invalid length")
            ELSE Ok(NoPacket, PTCPPayload(realm, rest))

\* lines 50-51: the header written for a payload whose data.len() is n
PayloadHeader(n) ==
    LET length == CastU32(n)
    IN  Or32(PayloadHeaderBase, length)

\* PTCPPayload::serialize leaving out the padding
PTCPPayload_serialize_NoPadding(p) ==
    to_be_bytes(PayloadHeader(Len(p.data))) \o to_be_bytes(p.realm) \o p.data

PTCPPayload_serialize(p) ==
    LET header == PayloadHeader(Len(p.data))
    IN  to_be_bytes(header) \o to_be_bytes(p.realm) \o to_be_bytes(U32(0)) \o p.data

----------------------------------------------------------------------------
(* Body codec *)

\* PTCPBody::parse without the assertion on the minimum length
PTCPBody_parse_NoMinLen(data) ==
    IF Len(data) = 0 THEN Ok(PTCPPacket(U32(0), U32(0), U32(0), U32(0), U32(0), Empty),
                             NoPayload)
    ELSE IF data[1] = PayloadTag
         THEN LET r == PTCPPayload_parse(data)
              IN  IF r.ok
                  THEN Ok(PTCPPacket(U32(0), U32(0), U32(0), U32(0), U32(0),
                                     Payload(r.payload.realm, r.payload.data)),
                          NoPayload)
                  ELSE r
         ELSE Ok(PTCPPacket(U32(0), U32(0), U32(0), U32(0), U32(0), Command(data)),
                 NoPayload)

PTCPBody_parse(data) ==
    IF Len(data) = 0 THEN Ok(PTCPPacket(U32(0), U32(0), U32(0), U32(0), U32(0), Empty),
                             NoPayload)
    ELSE IF Len(data) < MinBodyLen THEN Panic("Invalid body")
    ELSE IF data[1] = PayloadTag
         THEN LET r == PTCPPayload_parse(data)
              IN  IF r.ok
                  THEN Ok(PTCPPacket(U32(0), U32(0), U32(0), U32(0), U32(0),
                                     Payload(r.payload.realm, r.payload.data)),
                          NoPayload)
                  ELSE r
         ELSE Ok(PTCPPacket(U32(0), U32(0), U32(0), U32(0), U32(0), Command(data)),
                 NoPayload)

PTCPBody_serialize(body) ==
    CASE body.kind = "Command" -> body.data
      [] body.kind = "Payload" -> PTCPPayload_serialize(PTCPPayload(body.realm, body.data))
      [] body.kind = "Empty" -> <<>>

----------------------------------------------------------------------------
(* Packet codec *)

\* PTCPPacket::parse without the assertion on the magic
PTCPPacket_parse_NoMagic(data) ==
    IF Len(data) < PacketHeaderLen THEN Panic("Invalid packet")
    ELSE
        LET body == PTCPBody_parse(SliceFrom(data, PacketHeaderLen))
        IN  IF body.ok
            THEN Ok(PTCPPacket(from_be_bytes(data, 4), from_be_bytes(data, 8),
                               from_be_bytes(data, 12), from_be_bytes(data, 16),
                               from_be_bytes(data, 20), body.packet.body), NoPayload)
            ELSE body

PTCPPacket_parse(data) ==
    IF Len(data) < PacketHeaderLen THEN Panic("Invalid packet")
    ELSE IF SubSeq(data, 1, 4) # Magic THEN Panic("Invalid magic")
    ELSE
        LET sent == from_be_bytes(data, 4)
            recv == from_be_bytes(data, 8)
            pid == from_be_bytes(data, 12)
            lmid == from_be_bytes(data, 16)
            rmid == from_be_bytes(data, 20)
            body == PTCPBody_parse(SliceFrom(data, PacketHeaderLen))
        IN  IF body.ok
            THEN Ok(PTCPPacket(sent, recv, pid, lmid, rmid, body.packet.body), NoPayload)
            ELSE body

\* PTCPPacket::serialize writing rmid before lmid
PTCPPacket_serialize_Swapped(pkt) ==
    Magic \o to_be_bytes(pkt.sent) \o to_be_bytes(pkt.recv) \o to_be_bytes(pkt.pid)
          \o to_be_bytes(pkt.rmid) \o to_be_bytes(pkt.lmid) \o PTCPBody_serialize(pkt.body)

PTCPPacket_serialize(pkt) ==
    Magic \o to_be_bytes(pkt.sent) \o to_be_bytes(pkt.recv) \o to_be_bytes(pkt.pid)
          \o to_be_bytes(pkt.lmid) \o to_be_bytes(pkt.rmid) \o PTCPBody_serialize(pkt.body)

----------------------------------------------------------------------------
(* Session *)

PTCPSession_new == [sent |-> U32(0), recv |-> U32(0), count |-> U32(0), id |-> U32(0),
                    rmid |-> U32(0)]

\* c == b"\x00\x03\x01\x00"
is_ack(body) == body.kind = "Command" /\ body.data = AckCommand

\* the match of lines 211-215 / 241-245, before the `+ 12`: data.len() as u32
BodyLen(body) == CastU32(Len(body.data))

\* the match of lines 218-228 without the ack case
CountStep_AckCounts(body) ==
    CASE body.kind = "Command" -> U32(1)
      [] body.kind = "Payload" -> U32(1)
      [] body.kind = "Empty" -> U32(0)

\* the match of lines 218-228
CountStep(body) ==
    CASE body.kind = "Command" -> IF is_ack(body) THEN U32(0) ELSE U32(1)
      [] body.kind = "Payload" -> U32(1)
      [] body.kind = "Empty" -> U32(0)

\* the match of lines 211-215 / 241-245 without the `+ 12` of a Payload
ContributionWide_NoOverhead(body) ==
    CASE body.kind = "Command" -> BodyLen(body)
      [] body.kind = "Payload" -> BodyLen(body)
      [] body.kind = "Empty" -> U32(0)

\* the value of the match of lines 211-215 / 241-245 as a mathematical integer
ContributionWide(body) ==
    CASE body.kind = "Command" -> BodyLen(body)
      [] body.kind = "Payload" -> WideAdd(BodyLen(body), U32(PayloadOverhead))
      [] body.kind = "Empty" -> U32(0)

\* outcome of a call on the session: the session it leaves and what it returns
Outcome(s, r) == [session |-> s, ret |-> r]

AddOverflow == "attempt to add with overflow"
SubOverflow == "attempt to subtract with overflow"

\* PTCPSession::send building the packet from the counters after the update
PTCPSession_send_SnapshotAfter(self, body, checks) ==
    LET pid == IF is_ack(body) THEN AckPid ELSE WrapSub(PidBase, self.count)
        contrib == ContributionWide(body)
        newSent == WideAdd(self.sent, Wrap(contrib))
        newId == WideAdd(self.id, U32(1))
        newCount == WideAdd(self.count, CountStep(body))
        s3 == [self EXCEPT !.sent = Wrap(newSent), !.id = Wrap(newId),
                           !.count = Wrap(newCount)]
    IN  IF checks /\ ~is_ack(body) /\ Lt(PidBase, self.count) THEN Outcome(self, Panic(SubOverflow))
        ELSE IF checks /\ (~IsU32(contrib) \/ ~IsU32(newSent) \/ ~IsU32(newId)
                           \/ ~IsU32(newCount))
             THEN Outcome(self, Panic(AddOverflow))
        ELSE Outcome(s3, Ok(PTCPPacket(s3.sent, s3.recv, pid, s3.id, s3.rmid, body),
                            NoPayload))

\* PTCPSession::send, statement by statement; `checks` is the build's overflow-checks
PTCPSession_send(self, body, checks) ==
    LET sent == self.sent
        recv == self.recv
        pid == IF is_ack(body) THEN AckPid ELSE WrapSub(PidBase, self.count)
        lmid == self.id
        rmid == self.rmid
        contrib == ContributionWide(body)
        newSent == WideAdd(self.sent, Wrap(contrib))
        newId == WideAdd(self.id, U32(1))
        newCount == WideAdd(self.count, CountStep(body))
        s1 == [self EXCEPT !.sent = Wrap(newSent)]
        s2 == [s1 EXCEPT !.id = Wrap(newId)]
        s3 == [s2 EXCEPT !.count = Wrap(newCount)]
    IN  IF checks /\ ~is_ack(body) /\ Lt(PidBase, self.count) THEN Outcome(self, Panic(SubOverflow))
        ELSE IF checks /\ ~IsU32(contrib) THEN Outcome(self, Panic(AddOverflow))
        ELSE IF checks /\ ~IsU32(newSent) THEN Outcome(self, Panic(AddOverflow))
        ELSE IF checks /\ ~IsU32(newId) THEN Outcome(s1, Panic(AddOverflow))
        ELSE IF checks /\ ~IsU32(newCount) THEN Outcome(s2, Panic(AddOverflow))
        ELSE Outcome(s3, Ok(PTCPPacket(sent, recv, pid, lmid, rmid, body), NoPayload))

\* PTCPSession::recv
\* PTCPSession::recv adding to sent instead of recv
PTCPSession_recv_AddsToSent(self, packet, checks) ==
    LET contrib == ContributionWide(packet.body)
        newSent == WideAdd(self.sent, Wrap(contrib))
        s1 == [self EXCEPT !.sent = Wrap(newSent)]
        s2 == [s1 EXCEPT !.rmid = packet.lmid]
    IN  IF checks /\ ~IsU32(contrib) THEN Outcome(self, Panic(AddOverflow))
        ELSE IF checks /\ ~IsU32(newSent) THEN Outcome(self, Panic(AddOverflow))
        ELSE Outcome(s2, Ok(packet, NoPayload))

PTCPSession_recv(self, packet, checks) ==
    LET contrib == ContributionWide(packet.body)
        newRecv == WideAdd(self.recv, Wrap(contrib))
        s1 == [self EXCEPT !.recv = Wrap(newRecv)]
        s2 == [s1 EXCEPT !.rmid = packet.lmid]
    IN  IF checks /\ ~IsU32(contrib) THEN Outcome(self, Panic(AddOverflow))
        ELSE IF checks /\ ~IsU32(newRecv) THEN Outcome(self, Panic(AddOverflow))
        ELSE Outcome(s2, Ok(packet, NoPayload))

----------------------------------------------------------------------------
(* Inputs *)

Max32 == [hi |-> 65535, lo |-> 65535]

\* every sequence over S of length at most n
SeqsUpTo(S, n) == UNION {[1..k -> S] : k \in 0..n}

\* a byte sequence of length n
Fill(n) == [i \in 1..n |-> (i * 7) % W8]

DataBytes == {0, 16, 255}
LongLens == {12, 255, 256, 65535, 65536, 65537}
Realms == {U32(0), U32(1), [hi |-> 4096, lo |-> 16], Max32}

PayloadData == SeqsUpTo(DataBytes, MaxDataLen) \cup {Fill(n) : n \in LongLens}

Payloads == {PTCPPayload(r, d) : r \in Realms, d \in PayloadData}

Commands ==
    {Command(c) : c \in {AckCommand, <<0, 1, 2, 3>>, <<>>, <<0, 3, 1>>, <<0, 3, 1, 0, 0>>,
                         <<16, 0, 0, 0>>, <<16, 0, 0, 0, 0, 0, 0, 1, 0, 0, 0, 0>>,
                         <<16, 0, 0, 1, 0, 0, 0, 1, 0, 0, 0, 0, 9>>}}

\* bodies handed to the session
SessionBodies ==
    {Empty} \cup Commands \cup {Payload(U32(1), d) : d \in {<<>>, Fill(12)}}

\* bodies of the packets handed to the codec
CodecBodies ==
    {Empty} \cup Commands
            \cup {Payload(r, d) : r \in {U32(1), Max32},
                                  d \in SeqsUpTo(DataBytes, MaxDataLen) \cup {Fill(12), Fill(65535)}}

Counters ==
    {<<U32(0), U32(0), U32(0), U32(0), U32(0)>>,
     <<U32(4), [hi |-> 258, lo |-> 772], PidBase, U32(7), [hi |-> 1, lo |-> 0]>>,
     <<Max32, Max32, AckPid, Max32, Max32>>}

Packets(bodies) ==
    {PTCPPacket(c[1], c[2], c[3], c[4], c[5], b) : c \in Counters, b \in bodies}

\* datagrams: serialized packets, their prefixes shorter than the header, and
\* serialized packets with one byte of the magic replaced
Buffers ==
    LET ws == {PTCPPacket_serialize(pkt) : pkt \in Packets(SessionBodies)}
    IN  ws \cup {SubSeq(w, 1, n) : w \in ws, n \in 0..(PacketHeaderLen - 1)}
           \cup {[w EXCEPT ![k] = b] : w \in ws, k \in 1..4, b \in {0, 112}}

\* byte sequences handed to PTCPPayload::parse: serialized payloads, and the same
\* cut short, with the tag, the unused header bytes, the length or the padding
\* changed, or with a byte more
ShortPayloadBuffers ==
    LET ws == {PTCPPayload_serialize(PTCPPayload(r, d)) :
                    r \in {U32(1), Max32}, d \in SeqsUpTo(DataBytes, MaxDataLen)}
    IN  ws \cup {SubSeq(w, 1, n) : w \in ws, n \in 0..(PayloadOverhead - 1)}
           \cup {[w EXCEPT ![k] = b] : w \in ws, k \in {1, 2, 3, 4, 9, 12}, b \in {1, 17}}
           \cup {Append(w, 0) : w \in ws}

PayloadBuffers ==
    LET long == PTCPPayload_serialize(PTCPPayload(U32(1), Fill(65536)))
    IN  ShortPayloadBuffers \cup {long, [long EXCEPT ![2] = 0]}

\* byte sequences handed to PTCPBody::parse
BodyBuffers == SeqsUpTo(DataBytes, MaxDataLen + 2) \cup ShortPayloadBuffers

\* data.len() of the payloads whose header is computed
DataLens == {0, 1, 255, 256, 65535, 65536, 16777215, 16777216, 268435456, 268435461}

\* line 272: let mut buf = [0u8; 4096]
ReceiveBufferLen == 4096

\* Result::unwrap() on an Err (lines 261, 265, 270, 273)
UnwrapPanic == Panic("called Result::unwrap() on an Err value")

\* what the socket answers in one transport call: peer_addr(), then send / recv
SockOutcomes ==
    {[peer_addr |-> "ok", io |-> "ok"],
     [peer_addr |-> "ok", io |-> "err"],
     [peer_addr |-> "err", io |-> "none"]}

NoSock == [peer_addr |-> "ok", io |-> "none", n |-> 0]

\* socket.ptcp_request(packet), the socket answering so: what the call returns, the
\* bytes handed to the socket and the number of them it accepted
ptcp_request(packet, so) ==
    IF so.peer_addr = "err" THEN [ret |-> UnwrapPanic, datagram |-> <<>>, n |-> 0]
    ELSE LET bytes == PTCPPacket_serialize(packet)
         IN  IF so.io = "err" THEN [ret |-> UnwrapPanic, datagram |-> bytes, n |-> 0]
             ELSE [ret |-> Ok(NoPacket, NoPayload), datagram |-> bytes, n |-> Len(bytes)]

\* socket.ptcp_read(), the datagram at the head of the socket's queue and the socket
\* answering so: recv copies as much of the datagram as buf holds
ptcp_read(datagram, so) ==
    IF so.peer_addr = "err" THEN [ret |-> UnwrapPanic, buf |-> <<>>, n |-> 0]
    ELSE IF so.io = "err" THEN [ret |-> UnwrapPanic, buf |-> <<>>, n |-> 0]
    ELSE LET n == IF Len(datagram) > ReceiveBufferLen THEN ReceiveBufferLen
                  ELSE Len(datagram)
             buf == SubSeq(datagram, 1, n)
         IN  [ret |-> PTCPPacket_parse(buf), buf |-> buf, n |-> n]

NoDelivery == [packet |-> NoPacket, sent_after |-> U32(0), whole |-> TRUE, read |-> NoPacket]

\* no endpoints connected
NoLink ==
    /\ peer = PTCPSession_new
    /\ peer_checks = FALSE
    /\ peer_pre = PTCPSession_new
    /\ a_pc = "idle"
    /\ b_pc = "idle"
    /\ net = <<>>
    /\ sock = NoSock
    /\ delivered = NoDelivery

\* no task uses the socket
NoTasks ==
    /\ running = "none"
    /\ task = [requester |-> "idle", reader |-> "idle"]
    /\ inbox = <<>>
    /\ writable = TRUE

\* lines 265, 273: a task whose send / recv cannot complete now stays at its
\* `.await`, while the thread stays with the task instead of going back to the executor
Block(t) == t

\* lines 265, 273: `.await` on a send / recv that cannot complete now suspends task t
\* and gives the thread back to the executor
Suspend(t) == "none"

\* packets handed to ptcp_request by the requesting task
TaskPackets ==
    {PTCPPacket(U32(0), U32(0), AckPid, U32(0), U32(0), Command(AckCommand)),
     PTCPPacket(U32(4), U32(0), PidBase, U32(1), U32(0), Payload(U32(1), <<255>>))}

\* datagrams arriving at the socket: packets of the peer, and one too short to be a packet
TaskDatagrams == {PTCPPacket_serialize(p) : p \in TaskPackets} \cup {<<80, 84, 67>>}

\* bodies the sending endpoint hands to send; with the 24-byte header a Command of
\* 4073 bytes makes a datagram one byte longer than the receive buffer
LinkBodies ==
    {Command(AckCommand), Command(<<>>),
     Command(PTCPPayload_serialize(PTCPPayload(U32(1), <<255>>))),
     Payload(U32(1), <<>>),
     Command(Fill(4073))}

\* Two connected endpoints as the program reaches them, a sending to b:
\*   1: both fresh;
\*   2: a has sent the ack Command, b a Payload of one byte, both received;
\*   3: a has sent the ack Command 0x3FFFFFFF times, all received by b.
LinkReached ==
    <<[a |-> PTCPSession_new, b |-> PTCPSession_new],
      [a |-> [sent |-> U32(4), recv |-> U32(13), rmid |-> U32(0), count |-> U32(0),
              id |-> U32(1)],
       b |-> [sent |-> U32(13), recv |-> U32(4), rmid |-> U32(0), count |-> U32(1),
              id |-> U32(1)]],
      [a |-> [sent |-> [hi |-> 65535, lo |-> 65532], recv |-> U32(0), rmid |-> U32(0),
              count |-> U32(0), id |-> [hi |-> 16383, lo |-> 65535]],
       b |-> [sent |-> U32(0), recv |-> [hi |-> 65535, lo |-> 65532],
              rmid |-> [hi |-> 16383, lo |-> 65534], count |-> U32(0), id |-> U32(0)]]>>

\* Sessions the program reaches, each named by the calls that lead to it from
\* PTCPSession::new(); wraps = TRUE when the calls pass a count above 0xFFFF,
\* which only a build without overflow checks survives.
Reached ==
    <<[wraps |-> FALSE, s |-> PTCPSession_new],
     \* 65535 sends of Command(00 01 02 03)
     [wraps |-> FALSE, s |-> [sent |-> [hi |-> 3, lo |-> 65532], recv |-> U32(0),
                              count |-> PidBase, id |-> PidBase, rmid |-> U32(0)]],
     \* 65536 sends of Command(00 01 02 03)
     [wraps |-> FALSE, s |-> [sent |-> [hi |-> 4, lo |-> 0], recv |-> U32(0),
                              count |-> [hi |-> 1, lo |-> 0], id |-> [hi |-> 1, lo |-> 0],
                              rmid |-> U32(0)]],
     \* 0x3FFFFFFF sends of the ack Command (4 bytes each)
     [wraps |-> FALSE, s |-> [sent |-> [hi |-> 65535, lo |-> 65532], recv |-> U32(0),
                              count |-> U32(0), id |-> [hi |-> 16383, lo |-> 65535],
                              rmid |-> U32(0)]],
     \* 0xFFFFFFFF sends of Empty
     [wraps |-> FALSE, s |-> [sent |-> U32(0), recv |-> U32(0), count |-> U32(0),
                              id |-> Max32, rmid |-> U32(0)]],
     \* recv of packets carrying 0xFFFFFFFC bytes in all, the last with lmid 7
     [wraps |-> FALSE, s |-> [sent |-> U32(0), recv |-> [hi |-> 65535, lo |-> 65532],
                              count |-> U32(0), id |-> U32(0), rmid |-> U32(7)]],
     \* 0xFFFE0000 sends of Command()
     [wraps |-> TRUE, s |-> [sent |-> U32(0), recv |-> U32(0),
                             count |-> [hi |-> 65534, lo |-> 0],
                             id |-> [hi |-> 65534, lo |-> 0], rmid |-> U32(0)]],
     \* 0xFFFFFFFF sends of Command()
     [wraps |-> TRUE, s |-> [sent |-> U32(0), recv |-> U32(0), count |-> Max32,
                             id |-> Max32, rmid |-> U32(0)]]>>

----------------------------------------------------------------------------
(* The session under its caller *)

\* the calls that returned, summed up
Hist(s) ==
    [recv_total |-> s.recv,      \* sum of the contributions passed to recv (wide)
     last_recv_lmid |-> s.rmid,  \* lmid of the packet last passed to recv (0: none)
     sends |-> s.id,             \* number of send calls that returned (wide)
     counted |-> s.count,        \* sends whose body was a Payload or non-ack Command (wide)
     lmids |-> <<>>]             \* lmid of each packet send returned since Init

Init ==
    /\ overflow_checks \in BOOLEAN
    /\ \E i \in 1..Len(Reached) :
        /\ Reached[i].wraps => ~overflow_checks
        /\ session = Reached[i].s
    /\ op = "start"
    /\ pre = session
    /\ arg_body = Empty
    /\ arg_packet = NoPacket
    /\ arg_payload = NoPayload
    /\ arg_len = 0
    /\ NoLink
    /\ NoTasks
    /\ wire = <<>>
    /\ ret = Ok(NoPacket, NoPayload)
    /\ hist = Hist(session)
    /\ steps = 0

\* the caller calls session.send(body)
Send ==
    /\ ret.ok
    /\ steps < MaxSteps
    /\ \E body \in SessionBodies :
        LET o == PTCPSession_send(session, body, overflow_checks)
        IN  /\ session' = o.session
            /\ ret' = o.ret
            /\ arg_body' = body
            /\ hist' = IF ~o.ret.ok THEN hist
                       ELSE [hist EXCEPT
                                !.sends = WideAdd(@, U32(1)),
                                !.counted = WideAdd(@, IF body.kind = "Payload"
                                                          \/ (body.kind = "Command"
                                                                /\ body.data # AckCommand)
                                                       THEN U32(1) ELSE U32(0)),
                                !.lmids = Append(@, o.ret.packet.lmid)]
    /\ op' = "send"
    /\ UNCHANGED <<link_vars, task_vars>>
    /\ pre' = session
    /\ steps' = steps + 1
    /\ UNCHANGED <<overflow_checks, arg_packet, arg_payload, arg_len, wire>>

\* the caller calls session.recv(packet)
Recv ==
    /\ ret.ok
    /\ steps < MaxSteps
    /\ \E packet \in Packets(SessionBodies) :
        LET o == PTCPSession_recv(session, packet, overflow_checks)
        IN  /\ session' = o.session
            /\ ret' = o.ret
            /\ arg_packet' = packet
            /\ hist' = IF ~o.ret.ok THEN hist
                       ELSE [hist EXCEPT
                                !.recv_total = WideAdd(@, ContributionWide(packet.body)),
                                !.last_recv_lmid = packet.lmid]
    /\ op' = "recv"
    /\ UNCHANGED <<link_vars, task_vars>>
    /\ pre' = session
    /\ steps' = steps + 1
    /\ UNCHANGED <<overflow_checks, arg_body, arg_payload, arg_len, wire>>

Next == Send \/ Recv

Spec == Init /\ [][Next]_vars

----------------------------------------------------------------------------
(* The codec applied to bounded inputs; each application stands alone *)

LinkInit ==
    /\ overflow_checks \in BOOLEAN
    /\ peer_checks \in BOOLEAN
    /\ \E i \in 1..Len(LinkReached) :
        /\ session = LinkReached[i].a
        /\ peer = LinkReached[i].b
    /\ op = "start"
    /\ pre = session
    /\ peer_pre = peer
    /\ arg_body = Empty
    /\ arg_packet = NoPacket
    /\ arg_payload = NoPayload
    /\ arg_len = 0
    /\ wire = <<>>
    /\ ret = Ok(NoPacket, NoPayload)
    /\ hist = Hist(session)
    /\ steps = 0
    /\ a_pc = "idle"
    /\ b_pc = "idle"
    /\ net = <<>>
    /\ sock = NoSock
    /\ delivered = NoDelivery
    /\ NoTasks

\* endpoint a: let packet = session.send(body)
ASend ==
    /\ a_pc = "idle"
    /\ steps < MaxSteps
    /\ \E body \in LinkBodies :
        LET o == PTCPSession_send(session, body, overflow_checks)
        IN  /\ session' = o.session
            /\ ret' = o.ret
            /\ arg_body' = body
            /\ arg_packet' = IF o.ret.ok THEN o.ret.packet ELSE arg_packet
            /\ a_pc' = IF o.ret.ok THEN "sent" ELSE "dead"
    /\ op' = "send"
    /\ pre' = session
    /\ peer_pre' = peer
    /\ steps' = steps + 1
    /\ UNCHANGED <<overflow_checks, arg_payload, arg_len, wire, hist,
                   peer, peer_checks, b_pc, net, sock, delivered, task_vars>>

\* endpoint a: socket.ptcp_request(packet).await
Request ==
    /\ a_pc = "sent"
    /\ \E so \in SockOutcomes :
        LET r == ptcp_request(arg_packet, so)
        IN  /\ ret' = r.ret
            /\ wire' = r.datagram
            /\ sock' = [peer_addr |-> so.peer_addr, io |-> so.io, n |-> r.n]
            /\ net' = IF r.ret.ok
                      THEN Append(net, [bytes |-> r.datagram, packet |-> arg_packet,
                                        sent_after |-> session.sent])
                      ELSE net
            /\ a_pc' = IF r.ret.ok THEN "idle" ELSE "dead"
    /\ op' = "ptcp_request"
    /\ pre' = session
    /\ peer_pre' = peer
    /\ UNCHANGED <<overflow_checks, session, arg_body, arg_packet, arg_payload, arg_len,
                   hist, steps, peer, peer_checks, b_pc, delivered, task_vars>>

\* endpoint b: let packet = socket.ptcp_read().await, a datagram having arrived
Read ==
    /\ b_pc = "idle"
    /\ net # <<>>
    /\ \E so \in SockOutcomes :
        LET d == Head(net)
            r == ptcp_read(d.bytes, so)
        IN  /\ ret' = r.ret
            /\ wire' = r.buf
            /\ sock' = [peer_addr |-> so.peer_addr, io |-> so.io, n |-> r.n]
            /\ net' = IF so.io = "ok" THEN Tail(net) ELSE net
            /\ delivered' = IF so.io = "ok"
                            THEN [packet |-> d.packet,
                                  sent_after |-> d.sent_after,
                                  whole |-> delivered.whole /\ r.n = Len(d.bytes),
                                  read |-> r.ret.packet]
                            ELSE delivered
            /\ b_pc' = IF r.ret.ok THEN "read" ELSE "dead"
    /\ op' = "ptcp_read"
    /\ pre' = session
    /\ peer_pre' = peer
    /\ UNCHANGED <<overflow_checks, session, arg_body, arg_packet, arg_payload, arg_len,
                   hist, steps, peer, peer_checks, a_pc, task_vars>>

\* endpoint b: session.recv(packet) of the packet read
BRecv ==
    /\ b_pc = "read"
    /\ LET o == PTCPSession_recv(peer, delivered.read, peer_checks)
       IN  /\ peer' = o.session
           /\ ret' = o.ret
           /\ b_pc' = IF o.ret.ok THEN "idle" ELSE "dead"
    /\ op' = "recv"
    /\ pre' = session
    /\ peer_pre' = peer
    /\ UNCHANGED <<overflow_checks, session, arg_body, arg_packet, arg_payload, arg_len,
                   wire, hist, steps, peer_checks, a_pc, net, sock, delivered,
                   task_vars>>

LinkNext == ASend \/ Request \/ Read \/ BRecv

LinkSpec == LinkInit /\ [][LinkNext]_vars

TaskInit ==
    /\ overflow_checks \in BOOLEAN
    /\ session = PTCPSession_new
    /\ op = "start"
    /\ pre = session
    /\ arg_body = Empty
    /\ arg_packet = NoPacket
    /\ arg_payload = NoPayload
    /\ arg_len = 0
    /\ NoLink
    /\ wire = <<>>
    /\ ret = Ok(NoPacket, NoPayload)
    /\ hist = Hist(session)
    /\ steps = 0
    /\ running = "none"
    /\ task = [requester |-> "idle", reader |-> "idle"]
    /\ inbox = <<>>
    /\ writable \in BOOLEAN

\* a task is given socket.ptcp_request(packet) to run
SpawnRequest ==
    /\ task.requester = "idle"
    /\ \E packet \in TaskPackets : arg_packet' = packet
    /\ task' = [task EXCEPT !.requester = "ready"]
    /\ op' = "spawn_request"
    /\ UNCHANGED <<overflow_checks, session, pre, arg_body, arg_payload, arg_len, wire,
                   ret, hist, steps, link_vars, running, inbox, writable>>

\* a task is given socket.ptcp_read() to run
SpawnRead ==
    /\ task.reader = "idle"
    /\ task' = [task EXCEPT !.reader = "ready"]
    /\ op' = "spawn_read"
    /\ UNCHANGED <<overflow_checks, session, pre, arg_body, arg_packet, arg_payload,
                   arg_len, wire, ret, hist, steps, link_vars, running, inbox, writable>>

\* the executor runs the requesting task: ptcp_request from its start, or from the
\* `.await` of line 265 once the socket accepts a datagram
PollRequest ==
    /\ running \in {"none", "requester"}
    /\ \/ task.requester = "ready"
       \/ task.requester = "pending" /\ writable
    /\ \E so \in SockOutcomes :
        /\ task.requester = "pending" => so.peer_addr = "ok"
        /\ LET r == ptcp_request(arg_packet, so)
               waits == so.peer_addr = "ok" /\ ~writable
           IN  /\ task' = [task EXCEPT !.requester = IF waits THEN "pending"
                                                     ELSE IF r.ret.ok THEN "done"
                                                     ELSE "panicked"]
               /\ running' = IF waits THEN Suspend("requester") ELSE "none"
               /\ ret' = IF waits THEN ret ELSE r.ret
               /\ wire' = IF waits THEN wire ELSE r.datagram
               /\ sock' = IF waits THEN sock
                          ELSE [peer_addr |-> so.peer_addr, io |-> so.io, n |-> r.n]
    /\ op' = "ptcp_request"
    /\ UNCHANGED <<overflow_checks, session, pre, arg_body, arg_packet, arg_payload,
                   arg_len, hist, steps, peer, peer_checks, peer_pre, a_pc, b_pc, net,
                   delivered, inbox, writable>>

\* the executor runs the reading task: ptcp_read from its start, or from the `.await`
\* of line 273 once a datagram has arrived
PollRead ==
    /\ running \in {"none", "reader"}
    /\ \/ task.reader = "ready"
       \/ task.reader = "pending" /\ inbox # <<>>
    /\ \E so \in SockOutcomes :
        /\ task.reader = "pending" => so.peer_addr = "ok"
        /\ LET waits == so.peer_addr = "ok" /\ inbox = <<>>
               r == IF waits THEN [ret |-> ret, buf |-> wire, n |-> 0]
                    ELSE IF so.peer_addr = "err" THEN ptcp_read(<<>>, so)
                    ELSE ptcp_read(Head(inbox), so)
           IN  /\ task' = [task EXCEPT !.reader = IF waits THEN "pending"
                                                  ELSE IF r.ret.ok THEN "done"
                                                  ELSE "panicked"]
               /\ running' = IF waits THEN Suspend("reader") ELSE "none"
               /\ ret' = r.ret
               /\ wire' = r.buf
               /\ sock' = IF waits THEN sock
                          ELSE [peer_addr |-> so.peer_addr, io |-> so.io, n |-> r.n]
               /\ inbox' = IF ~waits /\ so.io = "ok" THEN Tail(inbox) ELSE inbox
    /\ op' = "ptcp_read"
    /\ UNCHANGED <<overflow_checks, session, pre, arg_body, arg_packet, arg_payload,
                   arg_len, hist, steps, peer, peer_checks, peer_pre, a_pc, b_pc, net,
                   delivered, writable>>

\* a datagram arrives at the socket
Arrive ==
    /\ steps < MaxSteps
    /\ \E d \in TaskDatagrams : inbox' = Append(inbox, d)
    /\ steps' = steps + 1
    /\ op' = "arrive"
    /\ UNCHANGED <<overflow_checks, session, pre, arg_body, arg_packet, arg_payload,
                   arg_len, wire, ret, hist, link_vars, running, task, writable>>

\* the socket's send buffer drains, or fills
SocketTurns ==
    /\ writable' = ~writable
    /\ op' = "socket"
    /\ UNCHANGED <<overflow_checks, session, pre, arg_body, arg_packet, arg_payload,
                   arg_len, wire, ret, hist, steps, link_vars, running, task, inbox>>

TaskNext == SpawnRequest \/ SpawnRead \/ PollRequest \/ PollRead \/ Arrive \/ SocketTurns

TaskSpec == TaskInit /\ [][TaskNext]_vars

CodecInit ==
    /\ overflow_checks \in BOOLEAN
    /\ session = PTCPSession_new
    /\ op = "start"
    /\ pre = session
    /\ arg_body = Empty
    /\ arg_packet = NoPacket
    /\ arg_payload = NoPayload
    /\ arg_len = 0
    /\ NoLink
    /\ NoTasks
    /\ wire = <<>>
    /\ ret = Ok(NoPacket, NoPayload)
    /\ hist = Hist(session)
    /\ steps = 0

\* PTCPPayload::parse(&p.serialize())
PayloadRoundTrip ==
    /\ op = "start"
    /\ \E p \in Payloads :
        /\ arg_payload' = p
        /\ wire' = PTCPPayload_serialize(p)
        /\ ret' = PTCPPayload_parse(wire')
    /\ op' = "payload_roundtrip"
    /\ UNCHANGED <<link_vars, task_vars>>
    /\ arg_packet' = NoPacket
    /\ UNCHANGED <<overflow_checks, session, pre, arg_body, arg_len, hist, steps>>

\* PTCPPacket::parse(&pkt.serialize())
PacketRoundTrip ==
    /\ op = "start"
    /\ \E pkt \in Packets(CodecBodies) :
        /\ arg_packet' = pkt
        /\ wire' = PTCPPacket_serialize(pkt)
        /\ ret' = PTCPPacket_parse(wire')
    /\ op' = "packet_roundtrip"
    /\ UNCHANGED <<link_vars, task_vars>>
    /\ arg_payload' = NoPayload
    /\ UNCHANGED <<overflow_checks, session, pre, arg_body, arg_len, hist, steps>>

\* PTCPPacket::parse(buf) on a received datagram
PacketParse ==
    /\ op = "start"
    /\ \E buf \in Buffers :
        /\ wire' = buf
        /\ ret' = PTCPPacket_parse(buf)
    /\ op' = "packet_parse"
    /\ UNCHANGED <<link_vars, task_vars>>
    /\ arg_packet' = NoPacket
    /\ arg_payload' = NoPayload
    /\ UNCHANGED <<overflow_checks, session, pre, arg_body, arg_len, hist, steps>>

\* PTCPPayload::parse(buf)
PayloadParse ==
    /\ op = "start"
    /\ \E buf \in PayloadBuffers :
        /\ wire' = buf
        /\ ret' = PTCPPayload_parse(buf)
    /\ op' = "payload_parse"
    /\ UNCHANGED <<link_vars, task_vars>>
    /\ UNCHANGED <<overflow_checks, session, pre, arg_body, arg_packet, arg_payload, arg_len,
                   hist, steps>>

\* the four header bytes PTCPPayload::serialize writes for data of n bytes
PayloadHeaderOf ==
    /\ op = "start"
    /\ \E n \in DataLens :
        /\ arg_len' = n
        /\ wire' = to_be_bytes(PayloadHeader(n))
    /\ op' = "payload_header"
    /\ UNCHANGED <<link_vars, task_vars>>
    /\ UNCHANGED <<overflow_checks, session, pre, arg_body, arg_packet, arg_payload, ret,
                   hist, steps>>

\* PTCPBody::parse(buf)
BodyParse ==
    /\ op = "start"
    /\ \E buf \in BodyBuffers :
        /\ wire' = buf
        /\ ret' = PTCPBody_parse(buf)
    /\ op' = "body_parse"
    /\ UNCHANGED <<link_vars, task_vars>>
    /\ UNCHANGED <<overflow_checks, session, pre, arg_body, arg_packet, arg_payload, arg_len,
                   hist, steps>>

\* body.serialize()
BodySerialize ==
    /\ op = "start"
    /\ \E body \in CodecBodies :
        /\ arg_body' = body
        /\ wire' = PTCPBody_serialize(body)
    /\ op' = "body_serialize"
    /\ UNCHANGED <<link_vars, task_vars>>
    /\ UNCHANGED <<overflow_checks, session, pre, arg_packet, arg_payload, arg_len, ret,
                   hist, steps>>

CodecNext ==
    \/ PayloadRoundTrip
    \/ PacketRoundTrip
    \/ PacketParse
    \/ PayloadParse
    \/ PayloadHeaderOf
    \/ BodyParse
    \/ BodySerialize

CodecSpec == CodecInit /\ [][CodecNext]_vars

----------------------------------------------------------------------------
(* Properties *)

\* a natural below 2^31 as a wide number
Wide(n) == [hi |-> n \div W16, lo |-> n % W16]

\* contribution of a body as the specification words it, a mathematical integer
Contribution(body) ==
    CASE body.kind = "Command" -> Wide(Len(body.data))
      [] body.kind = "Payload" -> Wide(Len(body.data) + 12)
      [] body.kind = "Empty" -> Wide(0)

IsAckBody(body) == body.kind = "Command" /\ body.data = <<0, 3, 1, 0>>

\* a body that takes a count slot: a Payload or a non-ack Command
Counted(body) == body.kind = "Payload" \/ (body.kind = "Command" /\ ~IsAckBody(body))

Returned(o) == op = o /\ ret.ok

\* C1: the packet returned by send carries sent, recv, lmid and rmid equal to the
\* session's sent, recv, id and rmid as they were immediately before the call; the
\* first send on a fresh session yields sent = 0, recv = 0, lmid = 0, rmid = 0.
C1_SendCarriesPreUpdateCounters ==
    Returned("send") =>
        /\ ret.packet.sent = pre.sent
        /\ ret.packet.recv = pre.recv
        /\ ret.packet.lmid = pre.id
        /\ ret.packet.rmid = pre.rmid
        /\ ret.packet.body = arg_body
        /\ (pre = PTCPSession_new =>
                /\ ret.packet.sent = Wide(0)
                /\ ret.packet.recv = Wide(0)
                /\ ret.packet.lmid = Wide(0)
                /\ ret.packet.rmid = Wide(0))

\* a send after a recv whose update changed sent and id: the packet holds the old values
C1_Witness ==
    /\ Returned("send")
    /\ session.sent # pre.sent
    /\ session.id # pre.id
    /\ pre.recv # Wide(0)
    /\ pre.rmid # Wide(0)
    /\ ret.packet.sent = pre.sent
    /\ ret.packet.lmid = pre.id

\* C2: after send(body) from any state, sent has grown by contribution(body), id by
\* exactly 1, and count by 1 for a Payload or non-ack Command and by 0 otherwise.
C2_SendAdvancesCounters ==
    Returned("send") =>
        /\ session.sent = WideAdd(pre.sent, Contribution(arg_body))
        /\ session.id = WideAdd(pre.id, Wide(1))
        /\ session.count = WideAdd(pre.count, IF Counted(arg_body) THEN Wide(1) ELSE Wide(0))

\* C3: the pid of the packet returned by send is 0x0002FFFF if and only if the body
\* is the ack Command; for every other body it is 0x0000FFFF minus the count before
\* the call (pid + count = 0x0000FFFF).
C3_PidIsAckOrCredit ==
    Returned("send") =>
        /\ (ret.packet.pid = [hi |-> 2, lo |-> 65535]) <=> IsAckBody(arg_body)
        /\ ~IsAckBody(arg_body) =>
                WideAdd(ret.packet.pid, pre.count) = [hi |-> 0, lo |-> 65535]

\* C4: in every reachable session state, including those with count above 0xFFFF,
\* a send with a non-ack body completes and returns a packet rather than failing.
C4_SendNeverFails ==
    (op = "send" /\ ~IsAckBody(arg_body)) => ret.ok

\* C5: recv(packet) from any state adds contribution(packet.body) to recv, sets rmid
\* to packet.lmid, and returns a packet equal to its argument in all six fields.
C5_RecvAddsAndPassesThrough ==
    op = "recv" =>
        /\ ret.ok
        /\ session.recv = WideAdd(pre.recv, Contribution(arg_packet.body))
        /\ session.rmid = arg_packet.lmid
        /\ ret.packet = arg_packet

\* C6: over any sequence of send and recv calls id never decreases, and the lmid
\* values of the packets returned by successive sends are strictly increasing.
C6_IdMonotonic ==
    /\ op \in {"send", "recv"} => Le(pre.id, session.id)
    /\ \A i, j \in 1..Len(hist.lmids) : i < j => Lt(hist.lmids[i], hist.lmids[j])

\* C7: each packet returned by send has rmid equal to the lmid of the packet most
\* recently passed to recv before it (0 if none) and recv equal to the sum of the
\* contributions of all packets passed to recv before it.
C7_SendReportsWhatWasReceived ==
    Returned("send") =>
        /\ ret.packet.rmid = hist.last_recv_lmid
        /\ ret.packet.recv = hist.recv_total

\* C8: for every Payload with data.len() < 65536, parse(serialize(p)) succeeds and
\* yields a payload with the same realm and the same data.
C8_PayloadRoundTrip ==
    (op = "payload_roundtrip" /\ Len(arg_payload.data) < 65536) =>
        /\ ret.ok
        /\ ret.payload.realm = arg_payload.realm
        /\ ret.payload.data = arg_payload.data

\* a payload whose length needs both bytes of the length field, with a realm using
\* its top and bottom bytes
C8_Witness ==
    /\ op = "payload_roundtrip"
    /\ Len(arg_payload.data) = 256
    /\ arg_payload.realm = [hi |-> 4096, lo |-> 16]
    /\ ret.ok
    /\ ret.payload = arg_payload

RoundTrips == ret.ok /\ ret.packet = arg_packet

\* C9 as stated: for every Packet whose body is Empty, any Command, or a Payload
\* with data.len() < 65536, parse(serialize(pkt)) succeeds and yields a packet equal
\* to pkt in all five counters and in the body, including its variant.
C9_PacketRoundTripAnyCommand ==
    (op = "packet_roundtrip"
        /\ (arg_packet.body.kind = "Payload" => Len(arg_packet.body.data) < 65536))
    => RoundTrips

\* C9 amended: the same, for a body that is Empty, a Command of at least 4 bytes
\* whose first byte is not 0x10, or a Payload with data.len() < 65536.
C9_PacketRoundTrip ==
    (op = "packet_roundtrip"
        /\ (arg_packet.body.kind = "Payload" => Len(arg_packet.body.data) < 65536)
        /\ (arg_packet.body.kind = "Command" =>
                Len(arg_packet.body.data) >= 4 /\ arg_packet.body.data[1] # 16))
    => RoundTrips

\* a Command packet with five different non-zero counters comes back equal
C9_Witness ==
    /\ op = "packet_roundtrip"
    /\ arg_packet.body.kind = "Command"
    /\ Len(arg_packet.body.data) >= 4
    /\ arg_packet.lmid # arg_packet.rmid
    /\ arg_packet.sent # arg_packet.recv
    /\ RoundTrips

ParsedWire == op \in {"packet_parse", "packet_roundtrip"}

\* C10: Packet parse ends in a format error, and never returns a packet, for every
\* buffer shorter than 24 bytes and for every buffer whose first four bytes differ
\* from the ASCII magic "PTCP", whatever the remaining bytes are.
C10_ParseRejectsShortOrBadMagic ==
    (ParsedWire /\ (Len(wire) < 24 \/ SubSeq(wire, 1, 4) # <<80, 84, 67, 80>>)) =>
        /\ ~ret.ok
        /\ ret.msg \in {"Invalid packet", "Invalid magic"}

\* a buffer with a wrong magic whose remaining bytes are those of a valid packet
C10_Witness ==
    /\ op = "packet_parse"
    /\ Len(wire) > 24
    /\ wire[1] = 80 /\ wire[4] # 80
    /\ PTCPPacket_parse([wire EXCEPT ![4] = 80]).ok
    /\ ~ret.ok
    /\ ret.msg = "Invalid magic"

\* C11: Body parse classifies by the raw bytes alone: no bytes give Empty; 1 to 3
\* bytes are a format error; at least 4 bytes starting with 0x10 give what the Payload
\* codec gives, a Payload or its failure, never a Command; any other input of at
\* least 4 bytes gives a Command holding exactly the input. Serializing Empty gives
\* no bytes.
C11_BodyParseClassifies ==
    /\ op = "body_parse" =>
        /\ Len(wire) = 0 => ret.ok /\ ret.packet.body.kind = "Empty"
        /\ Len(wire) \in 1..3 => ~ret.ok /\ ret.msg = "Invalid body"
        /\ (Len(wire) >= 4 /\ wire[1] = 16) =>
                LET p == PTCPPayload_parse(wire)
                IN  /\ ret.ok = p.ok
                    /\ ret.msg = p.msg
                    /\ ret.ok => /\ ret.packet.body.kind = "Payload"
                                 /\ ret.packet.body.realm = p.payload.realm
                                 /\ ret.packet.body.data = p.payload.data
        /\ (Len(wire) >= 4 /\ wire[1] # 16) =>
                /\ ret.ok
                /\ ret.packet.body.kind = "Command"
                /\ ret.packet.body.data = wire
    /\ (op = "body_serialize" /\ arg_body.kind = "Empty") => wire = <<>>

\* three bytes, none of them 0x10, are refused
C11_Witness ==
    /\ op = "body_parse"
    /\ Len(wire) = 3
    /\ wire[1] # 16
    /\ ~ret.ok
    /\ ret.msg = "Invalid body"

PayloadFormatErrors == {"Invalid payload", "Invalid header", "Invalid padding", "Invalid length"}

\* the four conditions of C12 on a buffer
PayloadMalformed(w) ==
    \/ Len(w) < 12
    \/ w[1] # 16
    \/ SubSeq(w, 9, 12) # <<0, 0, 0, 0>>
    \/ w[3] * 256 + w[4] # Len(w) - 12

\* C12: Payload parse fails with a format error exactly when the buffer is shorter
\* than 12 bytes, or the header's top byte is not 0x10, or the padding is not zero,
\* or the header's low 16 bits differ from the number of bytes after the 12-byte
\* header; otherwise it succeeds with realm from bytes 4..8 and data = all bytes
\* from offset 12.
C12_PayloadParseFailsExactlyWhen ==
    op = "payload_parse" =>
        /\ ~ret.ok <=> PayloadMalformed(wire)
        /\ ~ret.ok => ret.msg \in PayloadFormatErrors
        /\ ret.ok =>
            /\ ret.payload.realm = [hi |-> wire[5] * 256 + wire[6],
                                    lo |-> wire[7] * 256 + wire[8]]
            /\ ret.payload.data = SubSeq(wire, 13, Len(wire))

\* a buffer right in everything but one padding byte is refused for its padding
C12_Witness ==
    /\ op = "payload_parse"
    /\ Len(wire) > 12
    /\ wire[1] = 16
    /\ wire[3] * 256 + wire[4] = Len(wire) - 12
    /\ wire[12] # 0
    /\ ~ret.ok
    /\ ret.msg = "Invalid padding"

\* C13: for every Payload the bytes serialize produces have a top header byte equal
\* to the tag 0x10, a length field (the header below the tag byte) equal to
\* data.len(), and a padding field (bytes 8..12) equal to zero.
C13_SerializedHeaderInvariant ==
    /\ op = "payload_header" =>
        /\ wire[1] = 16
        /\ wire[2] * 65536 + wire[3] * 256 + wire[4] = arg_len
    /\ op = "payload_roundtrip" =>
        /\ wire[1] = 16
        /\ wire[2] * 65536 + wire[3] * 256 + wire[4] = Len(arg_payload.data)
        /\ SubSeq(wire, 9, 12) = <<0, 0, 0, 0>>

\* C16: for every Payload whose data is longer than 65535 bytes, parse applied to
\* the output of serialize fails: the header holds the unmasked length, of which
\* parse compares the low 16 bits with the actual data length.
C16_LongPayloadFailsRoundTrip ==
    (op = "payload_roundtrip" /\ Len(arg_payload.data) > 65535) =>
        /\ ~ret.ok
        /\ ret.msg = "Invalid length"
        /\ wire[2] * 65536 + wire[3] * 256 + wire[4] = Len(arg_payload.data)

\* 65536 bytes of data: the header is 10 01 00 00 and parse refuses it
C16_Witness ==
    /\ op = "payload_roundtrip"
    /\ Len(arg_payload.data) = 65536
    /\ SubSeq(wire, 1, 4) = <<16, 1, 0, 0>>
    /\ ~ret.ok
    /\ ret.msg = "Invalid length"

\* C20: in every state reached from a fresh session by fewer than 2^32 send calls
\* interleaved with any recv calls, id equals the number of send calls made, count
\* equals the number of those sends whose body was a Payload or a non-ack Command,
\* and therefore count <= id.
C20_IdAndCountCountSends ==
    IsU32(hist.sends) =>
        /\ session.id = hist.sends
        /\ session.count = hist.counted
        /\ Le(session.count, session.id)

\* an ack and a counted body sent from a fresh session: id = 2, count = 1
C20_Witness ==
    /\ op = "send"
    /\ ret.ok
    /\ hist.sends = U32(2)
    /\ hist.counted = U32(1)
    /\ session.id = U32(2)
    /\ session.count = U32(1)

\* the socket's failure handed back as a value
IoFailure == "I/O failure"

\* C14: when the socket's send operation fails, ptcp_request completes by handing
\* that same I/O failure to its caller as an error outcome, and does not abort.
C14_RequestPropagatesSendFailure ==
    (op = "ptcp_request" /\ sock.io = "err") =>
        /\ ret.ok
        /\ ret.msg = IoFailure

\* C17: every packet returned by a's send being serialized, parsed successfully and
\* passed to b's recv in the order sent, none lost or duplicated, after each delivery
\* (each recv that has returned) b's recv equals the value a's sent had right after
\* the corresponding send and b's rmid equals that packet's lmid, also when the body
\* changes variant on the way.
C17_CountersAgree ==
    (Returned("recv") /\ delivered.whole) =>
        /\ peer.recv = delivered.sent_after
        /\ peer.rmid = delivered.packet.lmid

\* a Command starting with 0x10 arrives as a Payload and the counters agree
C17_Witness ==
    /\ Returned("recv")
    /\ delivered.whole
    /\ delivered.packet.body.kind = "Command"
    /\ delivered.read.body.kind = "Payload"
    /\ peer.recv # peer_pre.recv
    /\ peer.recv = delivered.sent_after

\* C18: a packet handed to ptcp_request on one endpoint and delivered as a single
\* datagram to ptcp_read on the peer is returned by ptcp_read equal to the packet that
\* was sent, whatever the serialized length, here for every packet that
\* PTCPPacket::parse accepts and returns unchanged from its serialization.
C18_ReadReturnsWhatWasRequested ==
    (/\ op = "ptcp_read"
     /\ sock.io = "ok"
     /\ PTCPPacket_parse(PTCPPacket_serialize(delivered.packet))
            = Ok(delivered.packet, NoPayload)) =>
        /\ ret.ok
        /\ ret.packet = delivered.packet

\* C19: recv leaves the session's sent, count and id unchanged, send leaves the
\* session's recv and rmid unchanged, and no operation other than send and recv
\* changes any field of a session.
C19_Frame ==
    /\ op = "send" =>
        /\ session.recv = pre.recv
        /\ session.rmid = pre.rmid
        /\ peer = peer_pre
    /\ op = "recv" =>
        /\ peer.sent = peer_pre.sent
        /\ peer.count = peer_pre.count
        /\ peer.id = peer_pre.id
        /\ session = pre
    /\ op \notin {"send", "recv"} =>
        /\ session = pre
        /\ peer = peer_pre

\* a session that has sent before takes a packet in: recv and rmid move, the rest stays
C19_Witness ==
    /\ op = "recv"
    /\ ret.ok
    /\ peer.recv # peer_pre.recv
    /\ peer.rmid # peer_pre.rmid
    /\ peer.sent = U32(13)
    /\ peer.count = U32(1)
    /\ peer.id = U32(1)

====
